---- MODULE Spec2Model ----
(***************************************************************************)
(* A model of python/SlidePuzzle.py: the Board value type (goal, solvable, *)
(* move_tile, successors, randomize, the Manhattan distances) and the A*   *)
(* search of Board.solve.                                                  *)
(*                                                                         *)
(* A board's cells (_board) are a tuple; Python index i is index i + 1     *)
(* here.  Coordinates are zero-based as in the source.                     *)
(***************************************************************************)
EXTENDS Integers, Sequences, FiniteSets, TLC

\* ------------------------------------------------------------------------
\* Module constants of SlidePuzzle.py
\* ------------------------------------------------------------------------
EMPTY_TILE == 0

UP == "u"
DOWN == "d"
LEFT == "l"
RIGHT == "r"

\* Python's None where a board or its cells are expected (an unset _board,
\* the result of a move that leaves the grid): no tuple of cells is empty.
None == <<>>

\* Python's None as the direction of the start item.
NoDirection == "None"

\* The largest width/height solve() accepts without ignore_warning.
MaxSide == 3

\* ------------------------------------------------------------------------
\* Bounds of the model
\* ------------------------------------------------------------------------
\* Start boards are at most MaxDepth slides away from the goal board (or
\* from the goal board with tiles 1 and 2 exchanged, which is unsolvable).
MaxDepth == 10

\* The same for boards one larger than MaxSide.
MaxDepthBig == 2

\* Number of Board operations in one run of the board walk.
MaxOps == 3

\* How far past both ends of the tiles of a board the tile arguments go.
TileSlack == 2

\* The lists count_sort is called with have at most MaxLen elements, of
\* MaxLen different values.
MaxLen == 4

\* Start boards of the searches with any order of the successors are at most
\* MaxOrderDepth slides away from the goal board.
MaxOrderDepth == 3

\* ------------------------------------------------------------------------
\* Python helpers
\* ------------------------------------------------------------------------
Abs(n) == IF n < 0 THEN -n ELSE n

Max(a, b) == IF a >= b THEN a ELSE b

\* tuple.index(v): the first Python index holding v.
Index(cells, v) == (CHOOSE i \in 1..Len(cells) :
                        cells[i] = v /\ \A j \in 1..(i - 1) : cells[j] # v) - 1

\* Python's < on two tuples of integers.
RECURSIVE TupleLess(_, _)
TupleLess(a, b) ==
    IF a = <<>> THEN b # <<>>
    ELSE IF b = <<>> THEN FALSE
    ELSE IF Head(a) # Head(b) THEN Head(a) < Head(b)
    ELSE TupleLess(Tail(a), Tail(b))

\* ------------------------------------------------------------------------
\* count_sort / merge_count
\* ------------------------------------------------------------------------
\* merge_count that adds one for an element of B taken before those left in
\* A, however many are left.
RECURSIVE merge_loopCountsOne(_, _, _, _)
merge_loopCountsOne(A, B, S, c) ==
    IF ~(Len(A) > 0 \/ Len(B) > 0) THEN <<S, c>>
    ELSE IF Len(A) = 0 \/ Len(B) = 0
         THEN IF Len(A) > 0
              THEN merge_loopCountsOne(Tail(A), B, Append(S, Head(A)), c)
              ELSE merge_loopCountsOne(A, Tail(B), Append(S, Head(B)), c)
    ELSE IF Head(A) <= Head(B)
         THEN merge_loopCountsOne(Tail(A), B, Append(S, Head(A)), c)
         ELSE merge_loopCountsOne(A, Tail(B), Append(S, Head(B)), c + 1)

\* merge_count(A, B): the loop, with S and c as accumulators.
RECURSIVE merge_loop(_, _, _, _)
merge_loop(A, B, S, c) ==
    IF ~(Len(A) > 0 \/ Len(B) > 0) THEN <<S, c>>
    ELSE IF Len(A) = 0 \/ Len(B) = 0
         THEN IF Len(A) > 0
              THEN merge_loop(Tail(A), B, Append(S, Head(A)), c)
              ELSE merge_loop(A, Tail(B), Append(S, Head(B)), c)
    ELSE IF Head(A) <= Head(B)
         THEN merge_loop(Tail(A), B, Append(S, Head(A)), c)
         ELSE merge_loop(A, Tail(B), Append(S, Head(B)), c + Len(A))

merge_count(A, B) == merge_loop(A, B, <<>>, 0)

\* count_sort(L) = <<sorted list, number of inversions>>
RECURSIVE count_sort(_)
count_sort(L) ==
    LET half == Len(L) \div 2 IN
    IF Len(L) = 0 \/ half = 0 THEN <<L, 0>>
    ELSE LET r1 == count_sort(SubSeq(L, 1, half))
             r2 == count_sort(SubSeq(L, half + 1, Len(L)))
             m  == merge_count(r1[1], r2[1])
         IN  <<m[1], m[2] + r1[2] + r2[2]>>

\* ------------------------------------------------------------------------
\* Board: a side length n (_height_and_width) and cells (_board)
\* ------------------------------------------------------------------------
size(n) == n * n

width(n) == n

height(n) == n

\* What a call that computes a value ends with: the value returned, or an
\* AssertionError raised at a line of the source.
Value(v) == [kind |-> "value", value |-> v]

AssertionError(line) == [kind |-> "AssertionError", line |-> line]

\* The raise of _valid_tile_num and the assert of sum_m_dists.
InvalidTile == AssertionError(53)

SizeMismatch == AssertionError(262)

\* _valid_tile_num that takes 0 for no tile.
valid_tile_numPositive(n, tile_num) == 0 < tile_num /\ tile_num < size(n)

\* _valid_tile_num: TRUE, or the AssertionError is raised.
valid_tile_num(n, tile_num) == -1 < tile_num /\ tile_num < size(n)

x(n, cells, tile_num) == Index(cells, tile_num) % width(n)

y(n, cells, tile_num) ==
    LET tile_idx == Index(cells, tile_num) IN
    IF tile_idx = 0 THEN 0 ELSE tile_idx \div width(n)

xy(n, cells, tile_num) == <<x(n, cells, tile_num), y(n, cells, tile_num)>>

\* x, y and xy as called: with the guard that raises for an invalid tile.
call_x(n, cells, tile_num) ==
    IF ~valid_tile_num(n, tile_num) THEN InvalidTile
    ELSE Value(x(n, cells, tile_num))

call_y(n, cells, tile_num) ==
    IF ~valid_tile_num(n, tile_num) THEN InvalidTile
    ELSE Value(y(n, cells, tile_num))

call_xy(n, cells, tile_num) ==
    IF ~valid_tile_num(n, tile_num) THEN InvalidTile
    ELSE Value(xy(n, cells, tile_num))

\* xy_to_idx with row and column taken for each other.
xy_to_idxTransposed(n, px, py) == (width(n) * px) + py

xy_to_idx(n, px, py) == (width(n) * py) + px

goal(n) == [i \in 1..size(n) |-> IF i # size(n) THEN i ELSE EMPTY_TILE]

\* solvable() that counts the inversions with the empty slot left as 0, not
\* replaced by a value above every tile.
solvableEmptyAsZero(n, cells) ==
    LET inv_cnt == count_sort(cells)[2]
        p       == xy(n, cells, EMPTY_TILE)
        dist    == Abs(p[1] - (width(n) - 1)) + Abs(p[2] - (height(n) - 1))
    IN  (inv_cnt + dist) % 2 = 0

\* solvable() without the distance of the empty slot from the corner.
solvableInversionsOnly(n, cells) ==
    LET board   == [i \in 1..Len(cells) |->
                      IF cells[i] # EMPTY_TILE THEN cells[i] ELSE size(n) + 1]
        inv_cnt == count_sort(board)[2]
    IN  inv_cnt % 2 = 0

solvable(n, cells) ==
    LET board   == [i \in 1..Len(cells) |->
                      IF cells[i] # EMPTY_TILE THEN cells[i] ELSE size(n) + 1]
        inv_cnt == count_sort(board)[2]
        p       == xy(n, cells, EMPTY_TILE)
        dist    == Abs(p[1] - (width(n) - 1)) + Abs(p[2] - (height(n) - 1))
    IN  (inv_cnt + dist) % 2 = 0

\* m_dist that leaves the rows out of the distance.
m_distColumnsOnly(n, cells, on, other, tile_num, count_free_tile) ==
    IF ~valid_tile_num(n, tile_num) THEN InvalidTile
    ELSE IF (~count_free_tile) /\ tile_num = EMPTY_TILE THEN Value(0)
    ELSE IF ~valid_tile_num(on, tile_num) THEN InvalidTile
    ELSE Value(Abs(x(n, cells, tile_num) - x(on, other, tile_num)))

\* m_dist of the board (n, cells) to other_board (on, other).  Its guard is
\* on the tile alone; other_board.x raises where the tile is none of
\* other_board.
m_dist(n, cells, on, other, tile_num, count_free_tile) ==
    IF ~valid_tile_num(n, tile_num) THEN InvalidTile
    ELSE IF (~count_free_tile) /\ tile_num = EMPTY_TILE THEN Value(0)
    ELSE IF ~valid_tile_num(on, tile_num) THEN InvalidTile
    ELSE Value(Abs(x(n, cells, tile_num) - x(on, other, tile_num))
               + Abs(y(n, cells, tile_num) - y(on, other, tile_num)))

\* The sum of sum_m_dists with the distance of the empty slot counted.
RECURSIVE sum_uptoCountsEmpty(_, _, _, _, _)
sum_uptoCountsEmpty(n, cells, on, other, k) ==
    IF k < 0 THEN 0
    ELSE m_dist(n, cells, on, other, k, TRUE).value
         + sum_uptoCountsEmpty(n, cells, on, other, k - 1)

\* sum(self.m_dist(other_board, i) for i in range(k + 1))
RECURSIVE sum_upto(_, _, _, _, _)
sum_upto(n, cells, on, other, k) ==
    IF k < 0 THEN 0
    ELSE m_dist(n, cells, on, other, k, FALSE).value
         + sum_upto(n, cells, on, other, k - 1)

sum_m_dists(n, cells, on, other) ==
    IF size(n) # size(on) THEN SizeMismatch
    ELSE Value(sum_upto(n, cells, on, other, size(n) - 1))

\* move_tile that copies the empty slot to the new cell and forgets to put
\* the tile of that cell where the empty slot was.
move_tileHalfSwap(n, cells, direction) ==
    LET old == xy(n, cells, EMPTY_TILE)
        nx  == IF direction = LEFT THEN old[1] - 1
               ELSE IF direction = RIGHT THEN old[1] + 1 ELSE old[1]
        ny  == IF direction = LEFT \/ direction = RIGHT THEN old[2]
               ELSE IF direction = UP THEN old[2] - 1
               ELSE IF direction = DOWN THEN old[2] + 1 ELSE old[2]
    IN  IF ~(-1 < nx /\ nx < width(n) /\ -1 < ny /\ ny < height(n))
        THEN None
        ELSE LET idx     == xy_to_idx(n, nx, ny) + 1
                 old_idx == xy_to_idx(n, old[1], old[2]) + 1
             IN  [i \in 1..Len(cells) |->
                    IF i = idx THEN cells[old_idx] ELSE cells[i]]

\* move_tile that checks the new index against the tuple, not the new
\* column and row against the grid.
move_tileIndexCheck(n, cells, direction) ==
    LET old == xy(n, cells, EMPTY_TILE)
        nx  == IF direction = LEFT THEN old[1] - 1
               ELSE IF direction = RIGHT THEN old[1] + 1 ELSE old[1]
        ny  == IF direction = LEFT \/ direction = RIGHT THEN old[2]
               ELSE IF direction = UP THEN old[2] - 1
               ELSE IF direction = DOWN THEN old[2] + 1 ELSE old[2]
    IN  IF ~(-1 < xy_to_idx(n, nx, ny) /\ xy_to_idx(n, nx, ny) < size(n))
        THEN None
        ELSE LET idx     == xy_to_idx(n, nx, ny) + 1
                 old_idx == xy_to_idx(n, old[1], old[2]) + 1
             IN  [i \in 1..Len(cells) |->
                    IF i = idx THEN cells[old_idx]
                    ELSE IF i = old_idx THEN cells[idx]
                    ELSE cells[i]]

\* move_tile with the rows counted from the bottom: UP adds one to y and
\* DOWN takes one off.
move_tileUpsideDown(n, cells, direction) ==
    LET old == xy(n, cells, EMPTY_TILE)
        nx  == IF direction = LEFT THEN old[1] - 1
               ELSE IF direction = RIGHT THEN old[1] + 1 ELSE old[1]
        ny  == IF direction = LEFT \/ direction = RIGHT THEN old[2]
               ELSE IF direction = UP THEN old[2] + 1
               ELSE IF direction = DOWN THEN old[2] - 1 ELSE old[2]
    IN  IF ~(-1 < nx /\ nx < width(n) /\ -1 < ny /\ ny < height(n))
        THEN None
        ELSE LET idx     == xy_to_idx(n, nx, ny) + 1
                 old_idx == xy_to_idx(n, old[1], old[2]) + 1
             IN  [i \in 1..Len(cells) |->
                    IF i = idx THEN cells[old_idx]
                    ELSE IF i = old_idx THEN cells[idx]
                    ELSE cells[i]]

\* move_tile whose LEFT branch changes y where it should change x.
move_tileLeftIsUp(n, cells, direction) ==
    LET old == xy(n, cells, EMPTY_TILE)
        nx  == IF direction = RIGHT THEN old[1] + 1 ELSE old[1]
        ny  == IF direction = RIGHT THEN old[2]
               ELSE IF direction = UP \/ direction = LEFT THEN old[2] - 1
               ELSE IF direction = DOWN THEN old[2] + 1 ELSE old[2]
    IN  IF ~(-1 < nx /\ nx < width(n) /\ -1 < ny /\ ny < height(n))
        THEN None
        ELSE LET idx     == xy_to_idx(n, nx, ny) + 1
                 old_idx == xy_to_idx(n, old[1], old[2]) + 1
             IN  [i \in 1..Len(cells) |->
                    IF i = idx THEN cells[old_idx]
                    ELSE IF i = old_idx THEN cells[idx]
                    ELSE cells[i]]

\* move_tile: the cells of the resulting board, or None when the empty tile
\* would leave the grid.  A direction that is none of the four moves nothing.
move_tile(n, cells, direction) ==
    LET old == xy(n, cells, EMPTY_TILE)
        nx  == IF direction = LEFT THEN old[1] - 1
               ELSE IF direction = RIGHT THEN old[1] + 1 ELSE old[1]
        ny  == IF direction = LEFT \/ direction = RIGHT THEN old[2]
               ELSE IF direction = UP THEN old[2] - 1
               ELSE IF direction = DOWN THEN old[2] + 1 ELSE old[2]
    IN  IF ~(-1 < nx /\ nx < width(n) /\ -1 < ny /\ ny < height(n))
        THEN None
        ELSE LET idx     == xy_to_idx(n, nx, ny) + 1
                 old_idx == xy_to_idx(n, old[1], old[2]) + 1
             IN  [i \in 1..Len(cells) |->
                    IF i = idx THEN cells[old_idx]
                    ELSE IF i = old_idx THEN cells[idx]
                    ELSE cells[i]]

Directions == {UP, DOWN, LEFT, RIGHT}

\* successors() whose loop leaves out the last of the four directions.
successorsNoRight(n, cells) ==
    [d \in {e \in {UP, DOWN, LEFT} : move_tile(n, cells, e) # None} |->
        move_tile(n, cells, d)]

\* successors(): the dict, as a function from its keys to the new cells.
successors(n, cells) ==
    [d \in {e \in Directions : move_tile(n, cells, e) # None} |->
        move_tile(n, cells, d)]

solved(n, cells) == cells = goal(n)

\* ------------------------------------------------------------------------
\* Boards by number of slides (reference definitions and input sets)
\* ------------------------------------------------------------------------
\* The index of the empty slot in cells.
EmptyAt(cells) == CHOOSE p \in 1..Len(cells) : cells[p] = EMPTY_TILE

\* The index one cell from index p in direction d on an n x n grid, or 0
\* when that cell is outside the grid.
Target(n, p, d) ==
    LET row == (p - 1) \div n
        col == (p - 1) % n
    IN  IF d = UP THEN (IF row > 0 THEN p - n ELSE 0)
        ELSE IF d = DOWN THEN (IF row < n - 1 THEN p + n ELSE 0)
        ELSE IF d = LEFT THEN (IF col > 0 THEN p - 1 ELSE 0)
        ELSE IF d = RIGHT THEN (IF col < n - 1 THEN p + 1 ELSE 0)
        ELSE 0

\* A legal slide: the empty slot moves one cell in direction d, inside the
\* grid, exchanging places with the tile there.
IsLegal(n, cells, d) == Target(n, EmptyAt(cells), d) # 0

Slid(n, cells, d) ==
    LET p == EmptyAt(cells)
        q == Target(n, p, d)
    IN  [cells EXCEPT ![p] = cells[q], ![q] = cells[p]]

\* The boards one legal slide away from some board of S.
Slide(n, S) ==
    UNION {{Slid(n, b, d) : d \in {e \in {UP, DOWN, LEFT, RIGHT} : IsLegal(n, b, e)}} : b \in S}

\* <<R0, R1, ..., Rk>>: Ri is the set of boards whose shortest sequence of
\* legal slides from a board of frontier has length i (seen: nearer boards).
RECURSIVE RingsFrom(_, _, _, _)
RingsFrom(n, seen, frontier, k) ==
    IF k = 0 THEN <<frontier>>
    ELSE LET next == Slide(n, frontier) \ seen
         IN  <<frontier>> \o RingsFrom(n, seen \cup next, next, k - 1)

Sides == 1..(MaxSide + 1)

Depth(n) == IF n <= MaxSide THEN MaxDepth ELSE MaxDepthBig

\* The goal cells with tiles 1 and 2 exchanged (sides of at least 2).
twin(n) == [i \in 1..size(n) |->
              IF i = 1 THEN 2 ELSE IF i = 2 THEN 1 ELSE goal(n)[i]]

\* The goal cells with two tiles next to each other in the cell list
\* exchanged, the empty slot staying where it is.
AdjacentSwaps(n) ==
    {[i \in 1..size(n) |->
        IF i = k THEN goal(n)[k + 1]
        ELSE IF i = k + 1 THEN goal(n)[k]
        ELSE goal(n)[i]] : k \in 1..(size(n) - 2)}

\* Rings around the goal board, per side length.
GoalRings == [n \in Sides |-> RingsFrom(n, {goal(n)}, {goal(n)}, Depth(n))]

\* Rings around the twin of the goal board.
TwinRings == [n \in Sides |->
                IF n = 1 THEN <<>>
                ELSE RingsFrom(n, {twin(n)}, {twin(n)}, Depth(n))]

\* The boards at most k slides away from the goal board or from its twin.
Near(n, k) ==
    UNION {GoalRings[n][i] : i \in 1..(IF k + 1 < Len(GoalRings[n]) THEN k + 1 ELSE Len(GoalRings[n]))}
    \cup UNION {TwinRings[n][i] : i \in 1..(IF k + 1 < Len(TwinRings[n]) THEN k + 1 ELSE Len(TwinRings[n]))}

\* The boards a run may be started on (every permutation, for side 1 and 2).
Boards == [n \in Sides |-> Near(n, Depth(n))]

\* The boards the Board methods are first called on, which are also the
\* permutations a shuffle may produce: every permutation for the sides below
\* MaxSide, those nearest to the goal and its twin for the others.
NearBoards == [n \in Sides |->
                     IF n < MaxSide THEN Boards[n] ELSE Near(n, MaxDepthBig)]

\* Slides are undone by the opposite slide, so the ring of b around the goal
\* is also the least number of slides that take b to the goal.
MinMoves(n, b) == (CHOOSE k \in 1..Len(GoalRings[n]) : b \in GoalRings[n][k]) - 1

\* ------------------------------------------------------------------------
\* State
\* ------------------------------------------------------------------------
VARIABLES
    side,                  \* Board._height_and_width
    board,                 \* Board._board of the board operated on
    origin,                \* the cells a walk over the boards started from
    bpc,                   \* position in the Board method running: idle, randomize
    op,                    \* the Board method called last
    arg,                   \* the arguments of that call
    ret,                   \* what that call returned
    nops,                  \* number of calls made on the board
    pc,                    \* position in solve(): call, loop, return, raise
    ignore_warning,        \* argument of solve()
    give_max_queue_length, \* argument of solve()
    open,                  \* the heap, as the set of indices of its items
    item_by_idx,           \* item_by_idx (idx_by_item is its inverse)
    visited,               \* visited
    max_queue_length,      \* max_queue_length
    result                 \* what solve() returned or raised

boardVars == <<side, board, origin, bpc, op, arg, ret, nops>>

solveVars == <<pc, ignore_warning, give_max_queue_length, open, item_by_idx,
               visited, max_queue_length, result>>

vars == <<side, board, origin, bpc, op, arg, ret, nops, pc, ignore_warning,
          give_max_queue_length, open, item_by_idx, visited,
          max_queue_length, result>>

\* ------------------------------------------------------------------------
\* Calls of the Board methods
\* ------------------------------------------------------------------------
\* What a method returned: None, the receiver itself, a new Board, the dict
\* of successors().
NoReturn == [kind |-> "None", cells |-> None]

\* A call without arguments.
NoArgs == [direction |-> NoDirection]

Self(cells) == [kind |-> "self", cells |-> cells]

NewBoard(cells) == [kind |-> "Board", cells |-> cells]

Dict(d) == [kind |-> "dict", cells |-> d]

\* What random.shuffle can make of the goal's cells.
Shuffles(n) == NearBoards[n]

\* The arguments move_tile is called with: the four moves and another string.
DirectionArgs == Directions \cup {"x"}

SolveIdle ==
    UNCHANGED <<pc, ignore_warning, give_max_queue_length, open, item_by_idx,
                visited, max_queue_length, result>>

\* move_tile(direction, new)
MoveTile ==
    /\ bpc = "idle"
    /\ nops < MaxOps
    /\ \E direction \in DirectionArgs, new \in BOOLEAN :
          /\ arg' = [direction |-> direction, new |-> new]
          /\ LET new_board == move_tile(side, board, direction) IN
             IF new_board = None
             THEN ret' = NoReturn /\ UNCHANGED board
             ELSE IF new
             THEN ret' = NewBoard(new_board) /\ UNCHANGED board
             ELSE ret' = Self(new_board) /\ board' = new_board
    /\ op' = "move_tile"
    /\ nops' = nops + 1
    /\ UNCHANGED <<side, origin, bpc>>
    /\ SolveIdle

\* successors()
Successors ==
    /\ bpc = "idle"
    /\ nops < MaxOps
    /\ ret' = Dict(successors(side, board))
    /\ op' = "successors"
    /\ arg' = NoArgs
    /\ nops' = nops + 1
    /\ UNCHANGED <<side, board, origin, bpc>>
    /\ SolveIdle

\* goal()
Goal ==
    /\ bpc = "idle"
    /\ nops < MaxOps
    /\ ret' = NewBoard(goal(side))
    /\ op' = "goal"
    /\ arg' = NoArgs
    /\ nops' = nops + 1
    /\ UNCHANGED <<side, board, origin, bpc>>
    /\ SolveIdle

\* randomize(), up to its loop
RandomizeCall ==
    /\ bpc = "idle"
    /\ nops < MaxOps
    /\ bpc' = "randomize"
    /\ op' = "randomize"
    /\ arg' = NoArgs
    /\ ret' = NoReturn
    /\ UNCHANGED <<side, board, origin, nops>>
    /\ SolveIdle

\* The test of the while loop of randomize()
randomize_test(n, cells) == cells = None \/ ~solvable(n, cells)

\* A loop body that shuffles a list and never puts it in _board.
randomize_bodyKeepsBoard(n, cells) == {cells}

\* The body of the loop: the values it can leave in _board.
randomize_body(n, cells) == Shuffles(n)

\* randomize() whose loop ends with the first board there is, solvable or
\* not.
RandomizeTurnUnchecked ==
    /\ bpc = "randomize"
    /\ IF board = None
       THEN /\ \E shuffled \in Shuffles(side) : board' = shuffled
            /\ UNCHANGED <<bpc, ret, nops>>
       ELSE /\ bpc' = "idle"
            /\ ret' = NoReturn
            /\ nops' = nops + 1
            /\ UNCHANGED board
    /\ UNCHANGED <<side, origin, op, arg>>
    /\ SolveIdle

\* One turn of the while loop of randomize(), its test included
RandomizeTurn ==
    /\ bpc = "randomize"
    /\ IF randomize_test(side, board)
       THEN /\ \E shuffled \in randomize_body(side, board) : board' = shuffled
            /\ UNCHANGED <<bpc, ret, nops>>
       ELSE /\ bpc' = "idle"
            /\ ret' = NoReturn
            /\ nops' = nops + 1
            /\ UNCHANGED board
    /\ UNCHANGED <<side, origin, op, arg>>
    /\ SolveIdle

\* Board(board, height_and_width) with a permutation, or Board() with none,
\* which is inside randomize() then.
InitBoard ==
    /\ side \in Sides
    /\ \/ board \in NearBoards[side] /\ bpc = "idle" /\ op = "__init__"
       \/ board = None /\ bpc = "randomize" /\ op = "randomize"
    /\ origin = None
    /\ arg = NoArgs
    /\ ret = NoReturn
    /\ nops = 0
    /\ pc = "call"
    /\ ignore_warning = FALSE
    /\ give_max_queue_length = FALSE
    /\ open = {}
    /\ item_by_idx = <<>>
    /\ visited = {}
    /\ max_queue_length = 0
    /\ result = [kind |-> "pending", path |-> <<>>, max_queue_length |-> 0]

NextBoard == MoveTile \/ Successors \/ Goal \/ RandomizeCall \/ RandomizeTurn

SpecBoard == InitBoard /\ [][NextBoard]_vars

\* ------------------------------------------------------------------------
\* randomize() alone, with a shuffle that is fair
\* ------------------------------------------------------------------------
NextShuffle == RandomizeCall \/ RandomizeTurn

\* A turn of the loop in which the shuffle gives a solvable permutation.
SolvableDraw == RandomizeTurn /\ board' # board /\ solvable(side, board')

\* ENABLED <<RandomizeTurn>>_vars and ENABLED <<SolvableDraw>>_vars, written
\* as state predicates.
TurnEnabled ==
    /\ bpc = "randomize"
    /\ randomize_test(side, board)
         => \E shuffled \in randomize_body(side, board) : shuffled # board

DrawEnabled ==
    /\ bpc = "randomize"
    /\ randomize_test(side, board)
    /\ \E shuffled \in randomize_body(side, board) :
          shuffled # board /\ solvable(side, shuffled)

\* WF_vars(RandomizeTurn): the loop of randomize() goes on while it can;
\* SF_vars(SolvableDraw): the shuffle, which gives every permutation again
\* and again, gives a solvable one at some time.
FairShuffle ==
    /\ []<>(~TurnEnabled) \/ []<><<RandomizeTurn>>_vars
    /\ <>[](~DrawEnabled) \/ []<><<SolvableDraw>>_vars

SpecShuffle == InitBoard /\ [][NextShuffle]_vars /\ FairShuffle

\* ------------------------------------------------------------------------
\* Calls of the coordinate and distance methods
\* ------------------------------------------------------------------------
\* example1 of test()
example1 == <<2, 5, 8, 4, 3, 6, 7, 1, 0>>

\* The boards the methods are called on and with: those of NearBoards and
\* example1.
QueryBoards(n) == NearBoards[n] \cup {b \in {example1} : Len(b) = size(n)}

\* The tile arguments: every tile of a board of size k and some integers
\* on both sides of them.
TileArgs(k) == (0 - TileSlack)..(k - 1 + TileSlack)

\* One call is made on each board.
QueryIdle ==
    /\ bpc = "idle"
    /\ nops = 0
    /\ nops' = nops + 1
    /\ UNCHANGED <<side, board, origin, bpc>>
    /\ SolveIdle

\* x(tile_num)
CallX ==
    /\ QueryIdle
    /\ \E tile_num \in TileArgs(size(side)) :
          /\ arg' = [tile_num |-> tile_num]
          /\ ret' = call_x(side, board, tile_num)
    /\ op' = "x"

\* y(tile_num)
CallY ==
    /\ QueryIdle
    /\ \E tile_num \in TileArgs(size(side)) :
          /\ arg' = [tile_num |-> tile_num]
          /\ ret' = call_y(side, board, tile_num)
    /\ op' = "y"

\* xy(tile_num)
CallXY ==
    /\ QueryIdle
    /\ \E tile_num \in TileArgs(size(side)) :
          /\ arg' = [tile_num |-> tile_num]
          /\ ret' = call_xy(side, board, tile_num)
    /\ op' = "xy"

\* m_dist(other_board, tile_num, count_free_tile), other_board of any side
CallMDist ==
    /\ QueryIdle
    /\ \E on \in Sides :
       \E other \in QueryBoards(on) :
       \E tile_num \in TileArgs(Max(size(side), size(on))) :
       \E count_free_tile \in BOOLEAN :
          /\ arg' = [other_side |-> on, other |-> other, tile_num |-> tile_num,
                     count_free_tile |-> count_free_tile]
          /\ ret' = m_dist(side, board, on, other, tile_num, count_free_tile)
    /\ op' = "m_dist"

\* sum_m_dists(other_board), other_board of any side
CallSumMDists ==
    /\ QueryIdle
    /\ \E on \in Sides :
       \E other \in QueryBoards(on) :
          /\ arg' = [other_side |-> on, other |-> other]
          /\ ret' = sum_m_dists(side, board, on, other)
    /\ op' = "sum_m_dists"

\* solved()
CallSolved ==
    /\ QueryIdle
    /\ arg' = NoArgs
    /\ ret' = Value(solved(side, board))
    /\ op' = "solved"

\* Board(board, height_and_width) with a permutation
InitQuery ==
    /\ side \in Sides
    /\ board \in QueryBoards(side)
    /\ origin = None
    /\ bpc = "idle"
    /\ op = "__init__"
    /\ arg = NoArgs
    /\ ret = NoReturn
    /\ nops = 0
    /\ pc = "call"
    /\ ignore_warning = FALSE
    /\ give_max_queue_length = FALSE
    /\ open = {}
    /\ item_by_idx = <<>>
    /\ visited = {}
    /\ max_queue_length = 0
    /\ result = [kind |-> "pending", path |-> <<>>, max_queue_length |-> 0]

NextQuery ==
    CallX \/ CallY \/ CallXY \/ CallMDist \/ CallSumMDists \/ CallSolved

SpecQuery == InitQuery /\ [][NextQuery]_vars

\* ------------------------------------------------------------------------
\* Calls of count_sort and solvable
\* ------------------------------------------------------------------------
\* The lists of integers count_sort is called with: every list of at most
\* MaxLen elements out of MaxLen values, one of them negative, which gives
\* every order and every pattern of equal elements of such lists.
SortArgs ==
    UNION {[1..k -> (0 - 1)..(MaxLen - 2)] : k \in 0..MaxLen}

\* count_sort(L)
CallCountSort ==
    /\ QueryIdle
    /\ \E L \in SortArgs :
          /\ arg' = [L |-> L]
          /\ ret' = Value(count_sort(L))
    /\ op' = "count_sort"

\* solvable()
CallSolvable ==
    /\ QueryIdle
    /\ arg' = NoArgs
    /\ ret' = Value(solvable(side, board))
    /\ op' = "solvable"

NextSort == CallCountSort \/ CallSolvable

SpecSort == InitQuery /\ [][NextSort]_vars

\* ------------------------------------------------------------------------
\* All boards legal slides lead to
\* ------------------------------------------------------------------------
\* A board of side 2 or 3 that is the goal or its twin ...
InitWalk ==
    /\ side \in 2..MaxSide
    /\ origin \in {goal(side), twin(side)}
    /\ board = origin
    /\ bpc = "idle"
    /\ op = "__init__"
    /\ arg = NoArgs
    /\ ret = NoReturn
    /\ nops = 0
    /\ pc = "call"
    /\ ignore_warning = FALSE
    /\ give_max_queue_length = FALSE
    /\ open = {}
    /\ item_by_idx = <<>>
    /\ visited = {}
    /\ max_queue_length = 0
    /\ result = [kind |-> "pending", path |-> <<>>, max_queue_length |-> 0]

\* ... and then any legal slide, any number of times.
WalkSlide ==
    /\ \E d \in Directions :
          /\ IsLegal(side, board, d)
          /\ board' = Slid(side, board, d)
    /\ UNCHANGED <<side, origin, bpc, op, arg, ret, nops>>
    /\ SolveIdle

SpecWalk == InitWalk /\ [][WalkSlide]_vars

\* ------------------------------------------------------------------------
\* solve()
\* ------------------------------------------------------------------------
\* solve.item that records the start item as the parent of every item.
itemParentStart(n, g, direction, cells, parent_index) ==
    LET h == sum_m_dists(n, cells, n, goal(n)).value
    IN  [f |-> g + h, h |-> h, g |-> g, board |-> cells,
         direction |-> direction, parent_index |-> 0]

\* An Item whose f counts the heuristic twice.
itemWeighted(n, g, direction, cells, parent_index) ==
    LET h == sum_m_dists(n, cells, n, goal(n)).value
    IN  [f |-> g + 2 * h, h |-> h, g |-> g, board |-> cells,
         direction |-> direction, parent_index |-> parent_index]

\* Item(f, h, g, board, direction, parent_index), made by solve.item
item(n, g, direction, cells, parent_index) ==
    LET h == sum_m_dists(n, cells, n, goal(n)).value
    IN  [f |-> g + h, h |-> h, g |-> g, board |-> cells,
         direction |-> direction, parent_index |-> parent_index]

\* Python's order on the direction strings.
DirRank(d) == IF d = DOWN THEN 1 ELSE IF d = LEFT THEN 2
              ELSE IF d = RIGHT THEN 3 ELSE 4

\* An order on Items by f and then by board, h and g left out.
ItemLessByBoard(a, b) ==
    IF a.f # b.f THEN a.f < b.f
    ELSE IF a.board # b.board THEN TupleLess(a.board, b.board)
    ELSE IF a.direction # b.direction
         THEN a.direction # NoDirection /\ b.direction # NoDirection
              /\ DirRank(a.direction) < DirRank(b.direction)
    ELSE a.parent_index < b.parent_index

\* Python's < on two Items (namedtuples compare as tuples).  None and a
\* string do not compare: then neither item is less.
ItemLess(a, b) ==
    IF a.f # b.f THEN a.f < b.f
    ELSE IF a.h # b.h THEN a.h < b.h
    ELSE IF a.g # b.g THEN a.g < b.g
    ELSE IF a.board # b.board THEN TupleLess(a.board, b.board)
    ELSE IF a.direction # b.direction
         THEN a.direction # NoDirection /\ b.direction # NoDirection
              /\ DirRank(a.direction) < DirRank(b.direction)
    ELSE a.parent_index < b.parent_index

\* item_by_idx[i], for a Python index i
ItemAt(items, i) == items[i + 1]

\* heappop: the index of the least item of the heap
PopIdx(items, heap) ==
    CHOOSE i \in heap :
        \A j \in heap \ {i} : ItemLess(ItemAt(items, i), ItemAt(items, j))

\* The traceback loop: the items from last back to start_item, which
\* ends the loop when the last item of the path equals it.
RECURSIVE Traceback(_, _)
Traceback(items, last) ==
    IF last # ItemAt(items, 0)
    THEN <<last>> \o Traceback(items, ItemAt(items, last.parent_index))
    ELSE <<last>>

Move(direction, cells) == [direction |-> direction, board |-> cells]

\* A path that is not reversed.
ReverseForgotten(s) == s

Reverse(s) == [i \in 1..Len(s) |-> s[Len(s) + 1 - i]]

\* The list solve() returns once it popped curr_item holding the goal.
PathOf(items, curr_item) ==
    LET path  == Traceback(items, curr_item)
        moves == [i \in 1..Len(path) |-> Move(path[i].direction, path[i].board)]
    IN  Reverse(moves)

\* The order in which the dict of successors() is iterated.
SuccessorOrder == <<UP, DOWN, LEFT, RIGHT>>

\* The loop over successors.items() with the test of visited inverted:
\* only boards already visited are pushed.
RECURSIVE AddSuccessorsInverted(_, _, _, _, _, _)
AddSuccessorsInverted(n, succ, order, g, curr_idx, s) ==
    IF order = <<>> THEN s
    ELSE LET direction == Head(order) IN
         IF direction \notin DOMAIN succ \/ succ[direction] \notin s.visited
         THEN AddSuccessorsInverted(n, succ, Tail(order), g, curr_idx, s)
         ELSE LET successor_idx  == Len(s.item_by_idx)
                  successor_item == item(n, g, direction, succ[direction],
                                         curr_idx)
              IN  AddSuccessorsInverted(n, succ, Tail(order), g, curr_idx,
                      [open        |-> s.open \cup {successor_idx},
                       item_by_idx |-> Append(s.item_by_idx, successor_item),
                       visited     |-> s.visited \cup {succ[direction]}])

\* The loop over successors.items() left after its first push.
RECURSIVE AddSuccessorsFirstOnly(_, _, _, _, _, _)
AddSuccessorsFirstOnly(n, succ, order, g, curr_idx, s) ==
    IF order = <<>> THEN s
    ELSE LET direction == Head(order) IN
         IF direction \notin DOMAIN succ \/ succ[direction] \in s.visited
         THEN AddSuccessorsFirstOnly(n, succ, Tail(order), g, curr_idx, s)
         ELSE LET successor_idx  == Len(s.item_by_idx)
                  successor_item == item(n, g, direction, succ[direction],
                                         curr_idx)
              IN  [open        |-> s.open \cup {successor_idx},
                   item_by_idx |-> Append(s.item_by_idx, successor_item),
                   visited     |-> s.visited \cup {succ[direction]}]

\* The loop over successors.items() without the test of visited.
RECURSIVE AddSuccessorsUntested(_, _, _, _, _, _)
AddSuccessorsUntested(n, succ, order, g, curr_idx, s) ==
    IF order = <<>> THEN s
    ELSE LET direction == Head(order) IN
         IF direction \notin DOMAIN succ
         THEN AddSuccessorsUntested(n, succ, Tail(order), g, curr_idx, s)
         ELSE LET successor_idx  == Len(s.item_by_idx)
                  successor_item == item(n, g, direction, succ[direction],
                                         curr_idx)
              IN  AddSuccessorsUntested(n, succ, Tail(order), g, curr_idx,
                      [open        |-> s.open \cup {successor_idx},
                       item_by_idx |-> Append(s.item_by_idx, successor_item),
                       visited     |-> s.visited \cup {succ[direction]}])

\* The loop over successors.items(): s holds open, item_by_idx and visited.
RECURSIVE AddSuccessors(_, _, _, _, _, _)
AddSuccessors(n, succ, order, g, curr_idx, s) ==
    IF order = <<>> THEN s
    ELSE LET direction == Head(order) IN
         IF direction \notin DOMAIN succ \/ succ[direction] \in s.visited
         THEN AddSuccessors(n, succ, Tail(order), g, curr_idx, s)
         ELSE LET successor_idx  == Len(s.item_by_idx)
                  successor_item == item(n, g, direction, succ[direction],
                                         curr_idx)
              IN  AddSuccessors(n, succ, Tail(order), g, curr_idx,
                      [open        |-> s.open \cup {successor_idx},
                       item_by_idx |-> Append(s.item_by_idx, successor_item),
                       visited     |-> s.visited \cup {succ[direction]}])

Pending == [kind |-> "pending", path |-> <<>>, max_queue_length |-> 0]

\* An AssertionError, with the line of solve() that raised it.
Raised(line) == [kind |-> "AssertionError", path |-> <<>>,
                 max_queue_length |-> line]

Returned(give, path, m) ==
    IF give THEN [kind |-> "pair", path |-> path, max_queue_length |-> m]
    ELSE [kind |-> "list", path |-> path, max_queue_length |-> 0]

\* Falling out of the while loop: solve() returns None.
ReturnedNone == [kind |-> "None", path |-> <<>>, max_queue_length |-> 0]

\* The locals of a solve() that has not started.
NotStarted == [pc |-> "call", open |-> {}, item_by_idx |-> <<>>,
               visited |-> {}, max_queue_length |-> 0, result |-> Pending]

\* solve() without the assertion that the board is solvable.
SolveEntryUnasserted(n, cells, ignore, give) ==
    IF (~ignore) /\ (width(n) > MaxSide \/ height(n) > MaxSide)
    THEN [NotStarted EXCEPT !.pc = "raise", !.result = Raised(119)]
    ELSE [NotStarted EXCEPT
            !.pc = "loop",
            !.item_by_idx = <<item(n, 0, NoDirection, cells, -1)>>,
            !.open = {0},
            !.max_queue_length = IF give THEN 1 ELSE 0]

\* solve() whose size guard does not look at ignore_warning.
SolveEntryNoOverride(n, cells, ignore, give) ==
    IF ~solvable(n, cells)
    THEN [NotStarted EXCEPT !.pc = "raise", !.result = Raised(115)]
    ELSE IF width(n) > MaxSide \/ height(n) > MaxSide
    THEN [NotStarted EXCEPT !.pc = "raise", !.result = Raised(119)]
    ELSE [NotStarted EXCEPT
            !.pc = "loop",
            !.item_by_idx = <<item(n, 0, NoDirection, cells, -1)>>,
            !.open = {0},
            !.max_queue_length = IF give THEN 1 ELSE 0]

\* solve(), from its call to the first test of the while loop
SolveEntry(n, cells, ignore, give) ==
    IF ~solvable(n, cells)
    THEN [NotStarted EXCEPT !.pc = "raise", !.result = Raised(115)]
    ELSE IF (~ignore) /\ (width(n) > MaxSide \/ height(n) > MaxSide)
    THEN [NotStarted EXCEPT !.pc = "raise", !.result = Raised(119)]
    ELSE [NotStarted EXCEPT
            !.pc = "loop",
            !.item_by_idx = <<item(n, 0, NoDirection, cells, -1)>>,
            !.open = {0},
            !.max_queue_length = IF give THEN 1 ELSE 0]

\* A turn of the loop that keeps the length of the heap after the turn, not
\* the largest so far.
SolveTurnLastLength(n, give, s) ==
    IF ~(Cardinality(s.open) > 0)
    THEN [s EXCEPT !.pc = "return", !.result = ReturnedNone]
    ELSE LET curr_idx  == PopIdx(s.item_by_idx, s.open)
             curr_item == ItemAt(s.item_by_idx, curr_idx)
             g         == curr_item.g + 1
         IN  IF curr_item.board = goal(n)
             THEN [s EXCEPT
                     !.pc = "return",
                     !.open = s.open \ {curr_idx},
                     !.result = Returned(give,
                                         PathOf(s.item_by_idx, curr_item),
                                         s.max_queue_length)]
             ELSE LET t == AddSuccessors(n, successors(n, curr_item.board),
                               SuccessorOrder, g, curr_idx,
                               [open        |-> s.open \ {curr_idx},
                                item_by_idx |-> s.item_by_idx,
                                visited     |-> s.visited])
                  IN  [s EXCEPT
                         !.open = t.open,
                         !.item_by_idx = t.item_by_idx,
                         !.visited = t.visited,
                         !.max_queue_length =
                             IF give
                             THEN Cardinality(t.open)
                             ELSE s.max_queue_length]

\* One turn of the while loop of solve(), its test included, with the dict of
\* successors() iterated in the given order
SolveTurnIn(n, give, s, order) ==
    IF ~(Cardinality(s.open) > 0)
    THEN [s EXCEPT !.pc = "return", !.result = ReturnedNone]
    ELSE LET curr_idx  == PopIdx(s.item_by_idx, s.open)
             curr_item == ItemAt(s.item_by_idx, curr_idx)
             g         == curr_item.g + 1
         IN  IF curr_item.board = goal(n)
             THEN [s EXCEPT
                     !.pc = "return",
                     !.open = s.open \ {curr_idx},
                     !.result = Returned(give,
                                         PathOf(s.item_by_idx, curr_item),
                                         s.max_queue_length)]
             ELSE LET t == AddSuccessors(n, successors(n, curr_item.board),
                               order, g, curr_idx,
                               [open        |-> s.open \ {curr_idx},
                                item_by_idx |-> s.item_by_idx,
                                visited     |-> s.visited])
                  IN  [s EXCEPT
                         !.open = t.open,
                         !.item_by_idx = t.item_by_idx,
                         !.visited = t.visited,
                         !.max_queue_length =
                             IF give
                             THEN Max(s.max_queue_length, Cardinality(t.open))
                             ELSE s.max_queue_length]

\* One turn of the while loop of solve(), its test included
SolveTurn(n, give, s) == SolveTurnIn(n, give, s, SuccessorOrder)

\* The locals of solve() in the current state
Locals == [pc |-> pc, open |-> open, item_by_idx |-> item_by_idx,
           visited |-> visited, max_queue_length |-> max_queue_length,
           result |-> result]

SetLocals(s) ==
    /\ pc' = s.pc
    /\ open' = s.open
    /\ item_by_idx' = s.item_by_idx
    /\ visited' = s.visited
    /\ max_queue_length' = s.max_queue_length
    /\ result' = s.result

SolveCall ==
    /\ pc = "call"
    /\ SetLocals(SolveEntry(side, board, ignore_warning, give_max_queue_length))
    /\ UNCHANGED <<ignore_warning, give_max_queue_length>>
    /\ UNCHANGED boardVars

SolveLoop ==
    /\ pc = "loop"
    /\ SetLocals(SolveTurn(side, give_max_queue_length, Locals))
    /\ UNCHANGED <<ignore_warning, give_max_queue_length>>
    /\ UNCHANGED boardVars

\* solve() run to its end: what a whole call returns or raises
RECURSIVE RunLoop(_, _, _)
RunLoop(n, give, s) ==
    IF s.pc = "loop" THEN RunLoop(n, give, SolveTurn(n, give, s)) ELSE s

Solve(n, cells, ignore, give) ==
    RunLoop(n, give, SolveEntry(n, cells, ignore, give)).result

\* A board constructed from an explicit permutation, about to be solved.
InitSolve ==
    /\ side \in Sides
    /\ board \in Boards[side] \cup AdjacentSwaps(side)
    /\ origin = None
    /\ bpc = "idle"
    /\ op = "__init__"
    /\ arg = NoArgs
    /\ ret = NoReturn
    /\ nops = 0
    /\ pc = "call"
    /\ ignore_warning \in BOOLEAN
    /\ give_max_queue_length \in BOOLEAN
    /\ open = {}
    /\ item_by_idx = <<>>
    /\ visited = {}
    /\ max_queue_length = 0
    /\ result = Pending

NextSolve == SolveCall \/ SolveLoop

SpecSolve == InitSolve /\ [][NextSolve]_vars

\* ------------------------------------------------------------------------
\* solve() with the dict of successors() iterated in any order
\* ------------------------------------------------------------------------
\* The orders in which the four keys can come.
Orders ==
    {o \in [1..4 -> Directions] : \A i, j \in 1..4 : i # j => o[i] # o[j]}

\* The start boards: those at most MaxOrderDepth slides from the goal.
OrderBoards(n) ==
    UNION {GoalRings[n][k] :
             k \in 1..(IF MaxOrderDepth + 1 < Len(GoalRings[n])
                       THEN MaxOrderDepth + 1 ELSE Len(GoalRings[n]))}

\* A turn of the loop with the keys in some order
SolveLoopAnyOrder ==
    /\ pc = "loop"
    /\ \E order \in Orders :
          SetLocals(SolveTurnIn(side, give_max_queue_length, Locals, order))
    /\ UNCHANGED <<ignore_warning, give_max_queue_length>>
    /\ UNCHANGED boardVars

InitOrder ==
    /\ side \in 1..MaxSide
    /\ board \in OrderBoards(side)
    /\ origin = None
    /\ bpc = "idle"
    /\ op = "__init__"
    /\ arg = NoArgs
    /\ ret = NoReturn
    /\ nops = 0
    /\ pc = "call"
    /\ ignore_warning = FALSE
    /\ give_max_queue_length \in BOOLEAN
    /\ open = {}
    /\ item_by_idx = <<>>
    /\ visited = {}
    /\ max_queue_length = 0
    /\ result = Pending

NextOrder == SolveCall \/ SolveLoopAnyOrder

SpecOrder == InitOrder /\ [][NextOrder]_vars

\* ------------------------------------------------------------------------
\* Properties of solve()
\* ------------------------------------------------------------------------
\* solve() has returned its list (alone or with the queue length).
ReturnedPath == pc = "return" /\ result.kind \in {"list", "pair"}

\* The elements of a returned list that carry a direction.
MovesOf(path) == {i \in 1..Len(path) : path[i].direction # NoDirection}

\* C1: for a solvable start board of side at most 3, the returned list has
\* as many elements carrying a direction as the least number of legal
\* slides that take the start board to the goal.
C1_FewestMoves ==
    (ReturnedPath /\ side <= MaxSide)
        => Cardinality(MovesOf(result.path)) = MinMoves(side, board)

\* C2: the first element of the returned list is a move applied to the start
\* board, and the unmoved start board without a direction is no element.
C2_FirstIsAMove ==
    (ReturnedPath /\ board # goal(side))
        => /\ Len(result.path) > 0
           /\ result.path[1].direction \in Directions
           /\ IsLegal(side, board, result.path[1].direction)
           /\ result.path[1].board = Slid(side, board, result.path[1].direction)
           /\ \A i \in 1..Len(result.path) :
                  result.path[i] # Move(NoDirection, board)

\* C3: for a solvable start board of side at most 3, solve() returns a
\* non-empty list whose last board is the goal board.
C3_EndsAtGoal ==
    (pc = "return" /\ side <= MaxSide)
        => /\ ReturnedPath
           /\ Len(result.path) > 0
           /\ result.path[Len(result.path)].board = goal(side)

C3_Witness ==
    /\ ReturnedPath
    /\ side = MaxSide
    /\ board # goal(side)
    /\ Len(result.path) > 5

\* C4: every element of the returned list that carries a direction d holds
\* the board before it (the start board for the first element) with the
\* empty slot moved one cell in direction d, inside the grid.
C4_LegalSteps ==
    ReturnedPath
        => \A i \in MovesOf(result.path) :
              LET before == IF i = 1 THEN board ELSE result.path[i - 1].board
                  d      == result.path[i].direction
              IN  /\ d \in Directions
                  /\ IsLegal(side, before, d)
                  /\ result.path[i].board = Slid(side, before, d)

C4_Witness ==
    /\ ReturnedPath
    /\ Cardinality(MovesOf(result.path)) > 3
    /\ \E i, j \in MovesOf(result.path) :
          result.path[i].direction # result.path[j].direction

\* C6: on a board that is not solvable, solve() raises before it creates an
\* item or pushes one on the heap, and returns no list and no None.
C6_RefusesUnsolvable ==
    (pc # "call" /\ ~solvable(side, board))
        => /\ pc = "raise"
           /\ result.kind = "AssertionError"
           /\ item_by_idx = <<>>
           /\ open = {}
           /\ visited = {}

C6_Witness ==
    /\ pc = "raise"
    /\ side = MaxSide
    /\ ~solvable(side, board)
    /\ result = Raised(115)

Popped == Len(item_by_idx) - Cardinality(open)

\* C8: for a solvable start board of side at most 3, the heap is never empty
\* when the loop tests it, so solve() never returns None: every turn of the
\* loop either pops the goal and returns the list that ends with it, or pops
\* one more of the items, of which there is one per visited board besides
\* the start item (so the turns are bounded by the number of boards).
C8_PopsGoal ==
    /\ [](side <= MaxSide
            => /\ pc = "loop" => Cardinality(open) > 0
               /\ pc = "loop" => Len(item_by_idx) = Cardinality(visited) + 1
               /\ pc = "return"
                    => /\ ReturnedPath
                       /\ result.path[Len(result.path)].board = goal(side))
    /\ [][(pc = "loop" /\ side <= MaxSide)
            => \/ pc' = "return" /\ result'.kind # "None"
               \/ pc' = "loop" /\ Popped' = Popped + 1]_vars

C8_Witness ==
    /\ ReturnedPath
    /\ side = MaxSide
    /\ Cardinality(MovesOf(result.path)) >= MaxDepth

\* ------------------------------------------------------------------------
\* Properties of the Board methods
\* ------------------------------------------------------------------------
\* C5: a permutation on a 2 x 2 or 3 x 3 grid is solvable() exactly if legal
\* slides connect it with the goal board.  The walk starts at the goal or at
\* its twin and slides are undone by the opposite slide, so the boards of the
\* walk from the goal are those the goal is reachable from, and no board of
\* the walk from the twin is (it would make the goal a board of that walk,
\* where this formula fails, the goal being solvable()).
C5_SolvableIffReachable ==
    solvable(side, board) <=> (origin = goal(side))

C5_Witness ==
    /\ side = MaxSide
    /\ origin = twin(side)
    /\ board[1] = 8 /\ board[5] = EMPTY_TILE /\ board[9] = 1
    /\ ~solvable(side, board)

\* cells hold every value of 0 .. n*n - 1 once: a permutation, with one
\* empty slot.
IsPermutation(n, cells) ==
    /\ DOMAIN cells = 1..(n * n)
    /\ \A v \in 0..(n * n - 1) :
          Cardinality({i \in 1..(n * n) : cells[i] = v}) = 1

\* C9: a legal move, in place or as a new board, leaves solvable() as it
\* was: the board after it and the board it returns are solvable() exactly
\* if the board before it was.
C9_MovesKeepSolvable ==
    [][(op' = "move_tile" /\ nops' = nops + 1 /\ ret'.kind # "None")
         => /\ solvable(side, board') = solvable(side, board)
            /\ solvable(side, ret'.cells) = solvable(side, board)]_vars

C9_Witness ==
    /\ op = "move_tile"
    /\ ret.kind = "self"
    /\ side = MaxSide
    /\ nops > 1
    /\ ~solvable(side, board)

\* C10: the board held and every board returned by move_tile, successors()
\* and goal(), and every board randomize() adopts, hold a permutation of
\* 0 .. N*N - 1 with one empty slot.
C10_AlwaysPermutation ==
    /\ board # None => IsPermutation(side, board)
    /\ ret.kind \in {"self", "Board"} => IsPermutation(side, ret.cells)
    /\ ret.kind = "dict"
         => \A d \in DOMAIN ret.cells : IsPermutation(side, ret.cells[d])

C10_Witness ==
    /\ op = "successors"
    /\ nops > 1
    /\ side = MaxSide
    /\ Cardinality(DOMAIN ret.cells) = 4
    /\ board # goal(side)

\* ------------------------------------------------------------------------
\* Properties of move_tile and successors()
\* ------------------------------------------------------------------------
\* The step is a call of move_tile, whose arguments are in arg'.
MoveTileStep == op' = "move_tile" /\ nops' = nops + 1

\* C11: move_tile with one of the four directions whose move would take the
\* empty slot outside the grid returns None and leaves the cells of the
\* board as they were, with new = False and with new = True.
C11_OutsideIsNone ==
    [][(MoveTileStep /\ arg'.direction \in Directions
          /\ ~IsLegal(side, board, arg'.direction))
         => (ret' = NoReturn /\ board' = board)]_vars

\* A move to the left from the first column of the second row was refused.
C11_Witness ==
    /\ op = "move_tile"
    /\ side = MaxSide
    /\ arg.direction = LEFT
    /\ arg.new
    /\ EmptyAt(board) = MaxSide + 1
    /\ ret = NoReturn

\* C12: for a legal move, move_tile(d, new = True) returns another Board
\* whose cells are those of the receiver with the empty slot and the tile
\* next to it in direction d exchanged, and leaves the receiver as it was;
\* move_tile(d, new = False) returns the receiver, whose cells are now the
\* exchanged ones.  No cell but those two changes.
C12_LegalMoveSwaps ==
    [][(MoveTileStep /\ IsLegal(side, board, arg'.direction))
         => LET p == EmptyAt(board)
                q == Target(side, p, arg'.direction)
            IN  /\ IF arg'.new
                   THEN ret'.kind = "Board" /\ board' = board
                   ELSE ret'.kind = "self" /\ board' = ret'.cells
                /\ ret'.cells = Slid(side, board, arg'.direction)
                /\ ret'.cells[p] = board[q]
                /\ ret'.cells[q] = EMPTY_TILE
                /\ \A i \in (1..size(side)) \ {p, q} :
                      ret'.cells[i] = board[i]]_vars

\* A tile was moved down into the empty slot in place (the slot went up).
C12_Witness ==
    /\ op = "move_tile"
    /\ side = MaxSide
    /\ arg.direction = UP
    /\ ~arg.new
    /\ ret = Self(board)
    /\ EmptyAt(board) = 2 * MaxSide

\* The direction that takes a move back.
Inverse(d) ==
    IF d = UP THEN DOWN
    ELSE IF d = DOWN THEN UP
    ELSE IF d = LEFT THEN RIGHT
    ELSE LEFT

\* C13: a legal move in direction d followed by the move in the inverse
\* direction gives the cells the board had before the two.
C13_InverseUndoes ==
    [][(MoveTileStep /\ IsLegal(side, board, arg'.direction))
         => /\ move_tile(side, ret'.cells, Inverse(arg'.direction)) = board
            /\ ~arg'.new =>
                  move_tile(side, board', Inverse(arg'.direction)) = board]_vars

\* The slot of a shuffled board of the largest side went left, in place.
C13_Witness ==
    /\ op = "move_tile"
    /\ side = MaxSide + 1
    /\ arg.direction = LEFT
    /\ ~arg.new
    /\ ret.kind = "self"
    /\ nops > 1

\* C14: successors() returns a mapping whose keys are exactly the directions
\* whose move keeps the empty slot inside the grid, each with a board equal
\* to move_tile(key, new = True); it has at most 4 entries, and the cells of
\* the receiver stay as they were.
C14_SuccessorsAreTheLegalMoves ==
    [][(op' = "successors" /\ nops' = nops + 1)
         => /\ ret'.kind = "dict"
            /\ DOMAIN ret'.cells = {d \in Directions : IsLegal(side, board, d)}
            /\ \A d \in DOMAIN ret'.cells :
                  /\ ret'.cells[d] = move_tile(side, board, d)
                  /\ ret'.cells[d] = Slid(side, board, d)
            /\ Cardinality(DOMAIN ret'.cells) <= 4
            /\ board' = board]_vars

\* successors() of a board with the empty slot in the last column, not in a
\* corner: three entries.
C14_Witness ==
    /\ op = "successors"
    /\ side = MaxSide
    /\ EmptyAt(board) = 2 * MaxSide
    /\ DOMAIN ret.cells = {UP, DOWN, LEFT}

\* ------------------------------------------------------------------------
\* Properties of the coordinate and distance methods
\* ------------------------------------------------------------------------
\* C15: m_dist called with another board whose side differs from the
\* receiver's signals the size mismatch, for every tile value, and returns
\* no distance.
C15_MDistRefusesOtherSide ==
    (op = "m_dist" /\ arg.other_side # side) => ret = SizeMismatch

\* The index (from 1), column and row of tile t in cells on a grid of side n.
PlaceOf(cells, t) == CHOOSE p \in 1..Len(cells) : cells[p] = t

ColumnOf(n, cells, t) == (PlaceOf(cells, t) - 1) % n

RowOf(n, cells, t) == (PlaceOf(cells, t) - 1) \div n

\* C16: x(t), y(t) and xy(t) raise the invalid-tile error for every integer
\* t outside 0 .. N*N - 1 and for none inside; for a tile inside they return
\* its column (index mod N), its row (index div N) and the pair of the two,
\* counted from zero.
C16_CoordinatesOfValidTiles ==
    op \in {"x", "y", "xy"}
      => LET t == arg.tile_num IN
         IF t \in 0..(side * side - 1)
         THEN /\ op = "x" => ret = Value(ColumnOf(side, board, t))
              /\ op = "y" => ret = Value(RowOf(side, board, t))
              /\ op = "xy" => ret = Value(<<ColumnOf(side, board, t),
                                            RowOf(side, board, t)>>)
         ELSE ret = InvalidTile

\* xy(0) of a board with the empty slot in the middle.
C16_Witness ==
    /\ op = "xy"
    /\ side = MaxSide
    /\ arg.tile_num = EMPTY_TILE
    /\ ret = Value(<<1, 1>>)

\* C18: for two boards of one side, sum_m_dists is 0 exactly if their cells
\* are the same; goal().solved() is true and goal().sum_m_dists(goal()) is 0.
C18_ZeroIffSameCells ==
    /\ (op = "sum_m_dists" /\ arg.other_side = side)
         => /\ ret.kind = "value"
            /\ ret.value = 0 <=> arg.other = board
    /\ (op = "solved" /\ board = goal(side)) => ret = Value(TRUE)
    /\ solved(side, goal(side))
    /\ sum_m_dists(side, goal(side), side, goal(side)) = Value(0)

\* Two boards of side MaxSide one slide up or down apart: the sum is 1.
C18_Witness ==
    /\ op = "sum_m_dists"
    /\ side = MaxSide
    /\ arg.other_side = side
    /\ arg.other # board
    /\ ret = Value(1)
    /\ ColumnOf(side, board, EMPTY_TILE) = ColumnOf(side, arg.other, EMPTY_TILE)

\* The Manhattan distance between the places of tile t in cells a and b.
Manhattan(n, a, b, t) ==
    Abs(ColumnOf(n, a, t) - ColumnOf(n, b, t))
    + Abs(RowOf(n, a, t) - RowOf(n, b, t))

\* The sum of the Manhattan distances of tiles 1 .. k.
RECURSIVE ManhattanSum(_, _, _, _)
ManhattanSum(n, a, b, k) ==
    IF k < 1 THEN 0
    ELSE Manhattan(n, a, b, k) + ManhattanSum(n, a, b, k - 1)

\* The distances test() expects of tiles 1 .. 7 of example1.
example1_dists == <<3, 1, 2, 0, 1, 0, 0>>

\* C19: m_dist(other, t) is |x - x'| + |y - y'| for the places of tile t on
\* the two boards, and 0 for the empty slot unless count_free_tile is set;
\* sum_m_dists(other) is the sum of m_dist over the tiles 0 .. N*N - 1, the
\* empty slot adding 0.  For example1 against its goal: 3, 1, 2, 0, 1, 0, 0
\* for tiles 1 .. 7, and the sum 10.
C19_ManhattanDistances ==
    /\ (op = "m_dist" /\ arg.other_side = side
          /\ arg.tile_num \in 0..(side * side - 1))
         => ret = Value(IF arg.tile_num = EMPTY_TILE /\ ~arg.count_free_tile
                        THEN 0
                        ELSE Manhattan(side, board, arg.other, arg.tile_num))
    /\ (op = "sum_m_dists" /\ arg.other_side = side)
         => ret = Value(ManhattanSum(side, board, arg.other, side * side - 1))
    /\ (op = "m_dist" /\ board = example1 /\ arg.other = goal(side)
          /\ arg.tile_num \in 1..7 /\ ~arg.count_free_tile)
         => ret = Value(example1_dists[arg.tile_num])
    /\ (op = "sum_m_dists" /\ board = example1 /\ arg.other = goal(side))
         => ret = Value(10)

\* sum_m_dists of example1 and its goal is 10.
C19_Witness ==
    /\ op = "sum_m_dists"
    /\ board = example1
    /\ arg.other = goal(side)
    /\ ret = Value(10)

\* ------------------------------------------------------------------------
\* Unsolvable and shuffled boards
\* ------------------------------------------------------------------------
\* C17: a board that is the goal with two tiles next to each other in the
\* cell list exchanged and the empty slot in place (2, 1, 3, ..., 0 is one)
\* is not solvable(), for every side, and solve() on it raises at its first
\* assertion and searches nothing.
C17_AdjacentSwapIsRefused ==
    board \in AdjacentSwaps(side)
      => /\ ~solvable(side, board)
         /\ pc # "call"
              => /\ pc = "raise"
                 /\ result = Raised(115)
                 /\ item_by_idx = <<>>
                 /\ open = {}
                 /\ visited = {}

\* solve(True) has raised on the goal of side MaxSide with its last two
\* tiles exchanged.
C17_Witness ==
    /\ pc = "raise"
    /\ side = MaxSide
    /\ ignore_warning
    /\ board \in AdjacentSwaps(side)
    /\ board[size(side) - 1] = size(side) - 2

\* The boards legal slides lead to from the goal, as far as a shuffled board
\* and the moves made on it go.
FromGoal ==
    [n \in Sides |->
        LET rings == RingsFrom(n, {goal(n)}, {goal(n)}, Depth(n) + MaxOps)
        IN  UNION {rings[k] : k \in 1..Len(rings)}]

\* C20: when randomize() returns, after a call or in the construction of a
\* Board without a permutation, the cells are a permutation of the cells of
\* the goal and solvable(): a board that legal slides lead to from the goal.
C20_RandomizeEndsSolvable ==
    (op = "randomize" /\ bpc = "idle")
      => /\ board # None
         /\ IsPermutation(side, board)
         /\ solvable(side, board)
         /\ board \in FromGoal[side]

\* Board() of the largest side came out of __init__ with shuffled cells.
C20_Witness ==
    /\ op = "randomize"
    /\ bpc = "idle"
    /\ nops = 1
    /\ side = MaxSide + 1
    /\ board # goal(side)

\* C21: with a shuffle that gives every permutation again and again,
\* randomize() ends: a call in its loop leads to the loop left; a turn that
\* finds a solvable board leaves the loop, and every side has a solvable
\* permutation the shuffle can give.
C21_RandomizeTerminates ==
    /\ (bpc = "randomize") ~> (bpc = "idle")
    /\ [][(bpc = "randomize" /\ board # None /\ solvable(side, board))
            => bpc' = "idle"]_vars
    /\ [](\E p \in Shuffles(side) : solvable(side, p))

\* Board() of side MaxSide has left the loop of randomize().
C21_Witness ==
    /\ op = "randomize"
    /\ bpc = "idle"
    /\ nops = 1
    /\ side = MaxSide
    /\ board # goal(side)

WithinMoves(n, cells, k) ==
    LET rings == RingsFrom(n, {cells}, {cells}, k)
    IN  UNION {rings[i] : i \in 1..Len(rings)}

\* The item the next turn of the loop pops.
NextPopped == ItemAt(item_by_idx, PopIdx(item_by_idx, open))

\* C23: the g of every item solve() pops is the least number of legal moves
\* from the start board to the board of the item: no fewer moves lead there.
C23_PoppedByShortestPath ==
    (pc = "loop" /\ open # {} /\ NextPopped.g > 0)
        => NextPopped.board \notin WithinMoves(side, board, NextPopped.g - 1)

\* C24: in one call of solve() no cells are pushed on the heap twice: every
\* item ever made (each is pushed once) holds a board of its own, the start
\* item included.
C24_NoBoardPushedTwice ==
    \A i, j \in 1..Len(item_by_idx) :
        i # j => item_by_idx[i].board # item_by_idx[j].board

\* The items on the heap besides the one the next turn pops.
OthersOnHeap ==
    {ItemAt(item_by_idx, j) : j \in open \ {PopIdx(item_by_idx, open)}}

\* C25 as claimed: every item popped has the least f of the items on the
\* heap, and of those with that f it has the least board, by the order of
\* the cell sequences.
C25_LeastFThenLeastBoard ==
    (pc = "loop" /\ open # {})
        => \A other \in OthersOnHeap :
              /\ NextPopped.f <= other.f
              /\ other.f = NextPopped.f
                   => ~TupleLess(other.board, NextPopped.board)

\* C25, amended: every item popped has the least f of the items on the heap;
\* of those with that f it has the least h (so the largest g), and of those
\* with that f and h it has the least board, by the order of the cell
\* sequences.
C25_LeastFThenHThenBoard ==
    (pc = "loop" /\ open # {})
        => \A other \in OthersOnHeap :
              /\ NextPopped.f <= other.f
              /\ other.f = NextPopped.f => NextPopped.h <= other.h
              /\ (other.f = NextPopped.f /\ other.h = NextPopped.h)
                   => TupleLess(NextPopped.board, other.board)

\* The heap holds two items of the least f whose h differ and two whose h
\* are the same.
C25_Witness ==
    /\ pc = "loop"
    /\ side = MaxSide
    /\ open # {}
    /\ \E other \in OthersOnHeap :
          other.f = NextPopped.f /\ other.h > NextPopped.h
    /\ \E other \in OthersOnHeap :
          other.f = NextPopped.f /\ other.h = NextPopped.h

\* The start item of the search: its h is sum_m_dists of the start board and
\* the goal.
StartItem == ItemAt(item_by_idx, 0)

\* C26: the heuristic is admissible: for a solvable board of side 2 or 3,
\* sum_m_dists to the goal is at most the least number of legal moves that
\* take the board to the goal, and it is 0 for the goal.
C26_HeuristicAdmissible ==
    (pc \in {"loop", "return"} /\ side <= MaxSide)
        => /\ StartItem.board = board
           /\ StartItem.h <= MinMoves(side, board)
           /\ board = goal(side) => StartItem.h = 0

\* A board of side MaxSide, MaxDepth moves from the goal, whose heuristic is
\* under the number of moves.
C26_Witness ==
    /\ pc = "loop"
    /\ side = MaxSide
    /\ MinMoves(side, board) = MaxDepth
    /\ StartItem.h > 0
    /\ StartItem.h < MinMoves(side, board)

\* The items made for the successors of an expanded item.
SuccessorItems ==
    {i \in 1..Len(item_by_idx) : item_by_idx[i].parent_index >= 0}

\* C27: the heuristic is consistent: a legal move changes sum_m_dists to the
\* goal by exactly 1, up or down, so the f of the item of a successor is the
\* f of the item of its parent or that f and 2.
C27_HeuristicConsistent ==
    \A i \in SuccessorItems :
        LET it     == item_by_idx[i]
            parent == ItemAt(item_by_idx, it.parent_index)
        IN  /\ Abs(it.h - parent.h) = 1
            /\ it.g = parent.g + 1
            /\ it.f \in {parent.f, parent.f + 2}
            /\ it.board \in {Slid(side, parent.board, d) :
                    d \in {e \in Directions : IsLegal(side, parent.board, e)}}

\* The search made a successor that is nearer the goal by h than its parent
\* and one that is farther.
C27_Witness ==
    /\ pc = "loop"
    /\ side = MaxSide
    /\ \E i \in SuccessorItems :
          item_by_idx[i].f = ItemAt(item_by_idx, item_by_idx[i].parent_index).f
    /\ \E i \in SuccessorItems :
          item_by_idx[i].f = ItemAt(item_by_idx, item_by_idx[i].parent_index).f + 2

\* C28: the list solve() returns does not depend on the order in which the
\* entries of successors() come: with any order at every turn of the loop,
\* solve() returns what it returns with the order of the dict.
C28_OrderOfSuccessorsIrrelevant ==
    pc = "return"
        => result = Solve(side, board, ignore_warning, give_max_queue_length)

\* A search of a board of side MaxSide that pushed its successors in another
\* order than the dict gives has returned.
C28_Witness ==
    /\ ReturnedPath
    /\ side = MaxSide
    /\ Len(result.path) > MaxOrderDepth
    /\ \E i \in 1..(Len(item_by_idx) - 1) :
          /\ item_by_idx[i].parent_index = item_by_idx[i + 1].parent_index
          /\ DirRank(item_by_idx[i].direction)
                < DirRank(item_by_idx[i + 1].direction)

\* C29: randomize() called on a board that holds cells adopts a new random
\* permutation: whatever the cells at the call, every solvable permutation
\* of the cells of the goal is a board the call can end with, either the
\* board the loop is left with or one the next shuffle can give.
C29_RandomizeAdoptsNewPermutation ==
    (op = "randomize" /\ bpc = "randomize" /\ board # None)
      => \A p \in Shuffles(side) :
           solvable(side, p)
             => \/ ~randomize_test(side, board) /\ p = board
                \/ /\ randomize_test(side, board)
                   /\ p \in randomize_body(side, board)

\* C30: over one run of solve() the f of the popped items never falls: the
\* item a turn of the loop pops has an f at least that of the item the turn
\* before it popped, the pop of the goal board included.
C30_PoppedFNeverFalls ==
    [][(pc = "loop" /\ open # {} /\ pc' = "loop" /\ open' # {})
         => NextPopped'.f >= NextPopped.f]_vars

\* A search of a board of side MaxSide has returned after popping an item of
\* a greater f than the start item's, with items of that f or more left.
C30_Witness ==
    /\ ReturnedPath
    /\ side = MaxSide
    /\ \E i \in 1..Len(item_by_idx) :
          /\ (i - 1) \notin open
          /\ item_by_idx[i].f > item_by_idx[1].f
    /\ open # {}

\* The first four fields of an Item: what heapq compares before direction.
KeyOf(it) == <<it.f, it.h, it.g, it.board>>

\* C31: at every point of a run of solve() the items in the open set hold
\* different boards, so that any two of them differ in (f, h, g, board) and
\* the order of the heap never comes to compare their directions.
C31_OpenBoardsDiffer ==
    \A i, j \in open :
        i # j => /\ ItemAt(item_by_idx, i).board # ItemAt(item_by_idx, j).board
                 /\ KeyOf(ItemAt(item_by_idx, i)) # KeyOf(ItemAt(item_by_idx, j))

\* The start board of a search of side MaxSide has been pushed a second
\* time, after its first item left the open set, and the open set holds it
\* with other boards.
C31_Witness ==
    /\ pc = "loop"
    /\ side = MaxSide
    /\ Cardinality(open) > MaxSide
    /\ 0 \notin open
    /\ \E i \in open : ItemAt(item_by_idx, i).board = board

\* ------------------------------------------------------------------------
\* Inversions
\* ------------------------------------------------------------------------
\* S is in non-decreasing order.
IsSorted(S) == \A i, j \in 1..Len(S) : i < j => S[i] <= S[j]

\* S holds the elements of L, each as often as L does.
SameElements(S, L) ==
    /\ Len(S) = Len(L)
    /\ \A v \in {L[i] : i \in 1..Len(L)} \cup {S[i] : i \in 1..Len(S)} :
          Cardinality({i \in 1..Len(S) : S[i] = v})
            = Cardinality({i \in 1..Len(L) : L[i] = v})

\* The number of pairs i < j with L[i] > L[j].
Inversions(L) ==
    Cardinality({q \in (1..Len(L)) \X (1..Len(L)) :
                    q[1] < q[2] /\ L[q[1]] > L[q[2]]})

\* The same for the cells of a board, the empty slot above every tile.
BoardInversions(cells) ==
    Cardinality({q \in (1..Len(cells)) \X (1..Len(cells)) :
                    /\ q[1] < q[2]
                    /\ cells[q[2]] # EMPTY_TILE
                    /\ \/ cells[q[1]] = EMPTY_TILE
                       \/ cells[q[1]] > cells[q[2]]})

\* The steps along the grid from the empty slot to the bottom right cell.
EmptyToCorner(n, cells) ==
    ((n - 1) - ((EmptyAt(cells) - 1) % n))
      + ((n - 1) - ((EmptyAt(cells) - 1) \div n))

\* C32: count_sort(L) returns L in non-decreasing order with the number of
\* pairs i < j with L[i] > L[j], for every list of at most MaxLen integers;
\* solvable() returns whether that number of the cells, the empty slot taken
\* as larger than every tile, plus the grid distance of the empty slot from
\* the bottom right cell is even.
C32_CountSortCountsInversions ==
    /\ op = "count_sort"
         => /\ IsSorted(ret.value[1])
            /\ SameElements(ret.value[1], arg.L)
            /\ ret.value[2] = Inversions(arg.L)
    /\ op = "solvable"
         => ret.value
              = ((BoardInversions(board) + EmptyToCorner(side, board)) % 2 = 0)

\* count_sort has returned from a list of MaxLen elements in falling order,
\* equal ones among them, with a count of more than MaxLen.
C32_Witness ==
    /\ op = "count_sort"
    /\ Len(arg.L) = MaxLen
    /\ \A i \in 1..(MaxLen - 1) : arg.L[i] >= arg.L[i + 1]
    /\ \E i \in 1..(MaxLen - 1) : arg.L[i] = arg.L[i + 1]
    /\ ret.value[2] > MaxLen

\* solvable() has returned FALSE for a board of side MaxSide with its empty
\* slot away from the bottom right cell.
C32_WitnessSolvable ==
    /\ op = "solvable"
    /\ side = MaxSide
    /\ EmptyToCorner(side, board) > 0
    /\ ret.value = FALSE

====
